---------------------------- MODULE Spec2Model ----------------------------
(***************************************************************************)
(* Document lifecycle of one Model instance (lib/model.js): save with its  *)
(* insert/update branches and the retry reset of handleSave, and remove    *)
(* with the pending-removal promise kept in $__.removing.                  *)
(*                                                                         *)
(* The backend collaborator (collection.insert / collection.remove) is an  *)
(* environment that answers each outstanding call once, with an error or   *)
(* with {id, rev}.  Calls of save, remove and field setters are made by    *)
(* the caller between backend answers; a completion handler only records   *)
(* the outcome it was given.                                               *)
(***************************************************************************)
EXTENDS Naturals, Sequences, FiniteSets

\* ------------------------------------------------------------------ bounds
MaxSaves == 2
MaxRemoves == 3
MaxRuns == 2
MaxIndexes == 3
MaxDocs == 3
MaxItems == 3
MaxIds == 2
MaxFound == 2
MaxParts == 5
MaxCalls == 2

\* ------------------------------------------------------------------ values
\* What _id and _rev hold before they are assigned.
undefined == "undefined"

\* $__.removing when it designates no promise (promises are numbered by the
\* remove call that made them, from 1).
null == 0

\* The identifiers, revisions and errors the backend may answer with.
Ids == {"doc-a"}
Revs == {"1-x", "2-y"}
Errs == {"conflict", "unavailable"}

\* The error of a failed write; handleSave passes it on without reading it.
SaveErrs == {"conflict"}

\* The values a field of the document is set to: one where only the life
\* cycle is followed, two where the content of the writes is followed.
Vals == {"v1"}
SnapshotVals == {"v1", "v2"}

\* The error of a failed removal; remove passes it on without reading it.
RemoveErrs == {"unavailable"}

\* Model names, and the connections: mongoose.connection and one made by
\* createConnection.
Names == {"User", "Post"}
Conns == {"default", "other"}

\* The schema argument of model(): absent (false), one of two Schema
\* instances, or a plain object, which new Schema(schema) turns into an
\* instance of its own.
noSchema == 0
SchemaInstances == {1, 2}
plainObject == 3
SchemaArgs == {noSchema, plainObject} \cup SchemaInstances

\* The collection (database) argument of model(): absent or a name.
noCollection == "none"
Collections == {noCollection, "c1"}

\* A registry entry that is not set, and a compiled model: id numbers the
\* model() call that made it.
noModel == [id |-> 0, schema |-> noSchema, db |-> "none", coll |-> noCollection]

\* The record of the last model() call before any was made.
noCall == [fn |-> "none", name |-> "none", conn |-> "none", schema |-> noSchema,
           coll |-> noCollection, cache |-> TRUE, kind |-> "none",
           model |-> noModel]

VARIABLES
  isNew,          \* doc.isNew
  inserting,      \* doc.$__.inserting
  _id,            \* doc._id   (undefined until a save succeeded)
  _rev,           \* doc._rev
  dirty,          \* modified paths present (cleared by _reset)
  val,            \* the value of the document's field
  removing,       \* doc.$__.removing: null or the promise of a removal
  saves,          \* one record per save call: the write sent and its outcome
  inflight,       \* save calls whose backend write has not been answered
  lastDelivered,  \* save call whose handler was invoked most recently
  removes,        \* one record per remove call, with its promise if it made one
  rmInflight,     \* promises whose backend remove has not been answered
  rmSent,         \* backend remove calls issued, in order
  removeLog,      \* handler invocations of remove calls, in order
  runs,           \* one record per Model.ensureIndexes invocation
  ticks,          \* process.nextTick queue: invocations whose cb is scheduled
  hyd,            \* the hydrate call: its arguments, counters and callbacks
  cre,            \* the Model.create call: its item saves and callbacks
  reo,            \* the assignRawDocsToIdStructure call: arguments and outcome
  lookup,         \* the Model._getSchema call: schema, path and outcome
  fnd,            \* the findById / findWithView call and its callbacks
  reg             \* the model registries and the last model() call

vars == <<isNew, inserting, _id, _rev, dirty, val, removing, saves, inflight,
          lastDelivered, removes, rmInflight, rmSent, removeLog, runs, ticks,
          hyd, cre, reo, lookup, fnd, reg>>

docVars == <<isNew, inserting, _id, _rev, dirty, val>>
saveVars == <<saves, inflight, lastDelivered>>
removeVars == <<removing, removes, rmInflight, rmSent, removeLog>>
indexVars == <<runs, ticks>>

\* The state of one document instance, and the state of the model class.
instanceVars == <<docVars, saveVars, removeVars>>
classVars == <<indexVars, hyd, cre, reo, lookup, fnd, reg>>

\* What each operation of the model class leaves alone.
notIndex == <<instanceVars, hyd, cre, reo, lookup, fnd, reg>>
notHydrate == <<instanceVars, indexVars, cre, reo, lookup, fnd, reg>>
notCreate == <<instanceVars, indexVars, hyd, reo, lookup, fnd, reg>>
notReorder == <<instanceVars, indexVars, hyd, cre, lookup, fnd, reg>>
notResolve == <<instanceVars, indexVars, hyd, cre, reo, fnd, reg>>
notFind == <<instanceVars, indexVars, hyd, cre, reo, lookup, reg>>
notFindHydrate == <<instanceVars, indexVars, cre, reo, lookup, reg>>
notRegistry == <<instanceVars, indexVars, hyd, cre, reo, lookup, fnd>>

\* ------------------------------------------------------------ construction
Init ==
  /\ isNew = TRUE
  /\ inserting = FALSE
  /\ _id = undefined
  /\ _rev = undefined
  /\ dirty = FALSE
  /\ val = "v1"
  /\ removing = null
  /\ saves = << >>
  /\ inflight = {}
  /\ lastDelivered = 0
  /\ removes = << >>
  /\ rmInflight = {}
  /\ rmSent = << >>
  /\ removeLog = << >>
  /\ runs = << >>
  /\ ticks = << >>
  /\ hyd = [called |-> FALSE, variant |-> "none", docArray |-> FALSE, n |-> 0,
            arr |-> << >>, count |-> 0, fails |-> {}, pending |-> {},
            log |-> << >>]
  /\ cre = [called |-> FALSE, n |-> 0, docs |-> << >>, count |-> 0,
            emitted |-> "none", out |-> {}, order |-> << >>, log |-> << >>]
  /\ reo = [called |-> FALSE, rawIds |-> << >>, vals |-> << >>,
            sort |-> FALSE, recursed |-> FALSE, result |-> << >>]
  /\ lookup = [called |-> FALSE, schema |-> << >>, parts |-> << >>,
               out |-> [kind |-> "none", rule |-> << >>]]
  /\ fnd = [called |-> FALSE, finder |-> "none", st |-> "none",
            err |-> "none", log |-> << >>]
  /\ reg = [base |-> [name \in Names |-> noModel],
            conn |-> [c \in Conns |-> [name \in Names |-> noModel]],
            n |-> 0, last |-> noCall]

\* --------------------------------------------------------------- setters
\* doc.set(path, v): the field takes the value and the path is marked
\* modified.
set(v) ==
  /\ val' = v
  /\ dirty' = TRUE
  /\ UNCHANGED <<isNew, inserting, _id, _rev>>
  /\ UNCHANGED saveVars
  /\ UNCHANGED removeVars
  /\ UNCHANGED classVars

\* ------------------------------------------------------------------ save
\* this.toObject(...): the serialized document handed to the backend.
toObject == [id |-> _id, rev |-> _rev, val |-> val]

\* The branch Model.prototype.save takes.
branch == IF isNew THEN "insert" ELSE "update"

\* The record kept for a save call at the moment it is issued.
\* fn tells whether a completion handler was passed; emits lists the events
\* emitted on the model for the call, by save and then by handleSave.
newSave(op, obj, fn) ==
  [op |-> op, obj |-> obj, fn |-> fn, emits |-> <<"isNew">>, sent |-> 1, st |-> "pending", err |-> "none",
   res |-> [id |-> undefined, rev |-> undefined], cb |-> 0,
   prev |-> lastDelivered, solo |-> FALSE, was |-> [id |-> _id, rev |-> _rev],
   isNewAt |-> FALSE, idAt |-> undefined, revAt |-> undefined]

save(fn) ==
  /\ Len(saves) < MaxSaves
  /\ saves' = Append(saves, newSave(branch, toObject, fn))
  /\ inflight' = inflight \cup {Len(saves) + 1}
  /\ dirty' = FALSE
  /\ IF branch = "insert"
       THEN /\ isNew' = FALSE
            /\ inserting' = TRUE
       ELSE /\ inserting' = FALSE
            /\ isNew' = isNew
  /\ UNCHANGED <<_id, _rev, val, lastDelivered>>
  /\ UNCHANGED removeVars
  /\ UNCHANGED classVars

\* handleSave, error branch: the retry reset of isNew.
\* (variants: the reset left out; the reset applied to every failure)
isNewAfterErrorNoReset == isNew

isNewAfterErrorAlways == TRUE

isNewAfterError == IF inserting THEN TRUE ELSE isNew

\* handleSave, error branch: it returns before _id and _rev are assigned.
\* (variant: the assignment reached with no result)
idAfterErrorCleared == undefined

idAfterError == _id

revAfterError == _rev

\* handleSave, success branch: self._id = result.id; self._rev = result.rev.
\* (variant: the identifier not adopted)
idAfterOkKept(result) == _id

idAfterOk(result) == result.id

revAfterOk(result) == result.rev

\* The save calls still awaiting an answer after call c reported an error:
\* the error branch sends nothing.
\* (variant: the write sent again from the handler)
inflightAfterErrorResent(c) == inflight

inflightAfterError(c) == inflight \ {c}

\* The record of save call c once its handler has been invoked.
settled(c, st, err, res, new, id, rev, nsent, emitted) ==
  [saves[c] EXCEPT !.st = st, !.err = err, !.res = res,
                   !.cb = IF saves[c].fn THEN @ + 1 ELSE @,
                   !.emits = @ \o emitted,
                   !.solo = (c = Len(saves)), !.sent = nsent,
                   !.isNewAt = new, !.idAt = id, !.revAt = rev]

\* handleSave, error branch: the events emitted on the model; the error
\* itself goes to promise.error(err) only.
emitsOnError == IF inserting THEN <<"isNew">> ELSE << >>

handleSaveErr(c, err) ==
  /\ isNew' = isNewAfterError
  /\ inflight' = inflightAfterError(c)
  /\ saves' = [saves EXCEPT ![c] =
                 settled(c, "err", err, saves[c].res, isNewAfterError,
                         idAfterError, revAfterError,
                         IF c \in inflightAfterError(c) THEN saves[c].sent + 1
                                                        ELSE saves[c].sent,
                         emitsOnError)]
  /\ _id' = idAfterError
  /\ _rev' = revAfterError
  /\ lastDelivered' = c
  /\ UNCHANGED <<inserting, dirty, val>>
  /\ UNCHANGED removeVars

\* handleSave, success branch: the modified paths are not touched.
\* (variant: the document is marked clean when the write completes)
dirtyAfterOkCleared == FALSE

dirtyAfterOk == dirty

handleSaveOk(c, result) ==
  /\ _id' = idAfterOk(result)
  /\ _rev' = revAfterOk(result)
  /\ inflight' = inflight \ {c}
  /\ saves' = [saves EXCEPT ![c] =
                 settled(c, "ok", "none", result, isNew,
                         idAfterOk(result), revAfterOk(result),
                         saves[c].sent, <<"save">>)]
  /\ lastDelivered' = c
  /\ dirty' = dirtyAfterOk
  /\ UNCHANGED <<isNew, inserting, val>>
  /\ UNCHANGED removeVars

\* The backend answers the write of save call c.
handleSave(c) ==
  /\ c \in inflight
  /\ \/ \E err \in SaveErrs : handleSaveErr(c, err)
     \/ \E i \in Ids, r \in Revs : handleSaveOk(c, [id |-> i, rev |-> r])
  /\ UNCHANGED classVars

\* ---------------------------------------------------------------- remove
\* A remove call that made no promise of its own.
noPromise == [backs |-> << >>, emitted |-> "none"]

\* new Promise(fn): the handler of call c is its first listener.
newPromise(c) == [backs |-> <<c>>, emitted |-> "pending"]

\* promise.addBack(fn): the handler of call c joins the listeners.
addBack(backs, c) == Append(backs, c)

\* promise.error / promise.complete: the listeners are invoked in
\* registration order, each with the outcome out.
fire(backs, out) == [i \in 1..Len(backs) |-> [call |-> backs[i], out |-> out]]

Range(s) == {s[i] : i \in 1..Len(s)}

\* The record kept for a remove call at the moment it is made.
newRemove(issued, at, p, promise) ==
  [issued |-> issued, at |-> at, p |-> p, out |-> "pending", cb |-> 0,
   promise |-> promise, ans |-> IF issued THEN "pending" ELSE "none"]

\* if (this.$__.removing) { this.$__.removing.addBack(fn); return this; }
\* (variant: the call returns without handing fn to the pending promise)
removeAttachDropped ==
  LET c == Len(removes) + 1
      p == removing
      e == removes[p].promise.emitted
  IN /\ removes' = Append(removes, newRemove(FALSE, e, p, noPromise))
     /\ UNCHANGED <<removing, rmInflight, rmSent, removeLog>>

removeAttach ==
  LET c == Len(removes) + 1
      p == removing
      e == removes[p].promise.emitted
  IN /\ removes' =
          [Append(removes, newRemove(FALSE, e, p, noPromise))
             EXCEPT ![p].promise.backs = addBack(@, c),
                    ![c].out = IF e = "pending" THEN "pending" ELSE e,
                    ![c].cb = IF e = "pending" THEN 0 ELSE 1]
     /\ removeLog' = IF e = "pending" THEN removeLog
                     ELSE removeLog \o fire(<<c>>, e)
     /\ UNCHANGED <<removing, rmInflight, rmSent>>

\* var promise = this.$__.removing = new Promise(fn);
\* this.collection.remove(this._id, this._rev, tick(...))
removeIssue ==
  LET c == Len(removes) + 1
  IN /\ removes' = Append(removes, newRemove(TRUE, "none", c, newPromise(c)))
     /\ removing' = c
     /\ rmInflight' = rmInflight \cup {c}
     /\ rmSent' = Append(rmSent, [p |-> c, id |-> _id, rev |-> _rev])
     /\ UNCHANGED removeLog

\* Whether Model.prototype.remove finds a removal to attach to.
\* (variant: the marker not consulted)
hasRemovingNever == FALSE

hasRemoving == removing # null

remove ==
  /\ Len(removes) < MaxRemoves
  /\ IF hasRemoving THEN removeAttach ELSE removeIssue
  /\ UNCHANGED docVars
  /\ UNCHANGED saveVars
  /\ UNCHANGED classVars

\* The remove records after promise p has invoked its listeners with out.
invoked(p, out) ==
  [c \in DOMAIN removes |->
     IF c \in Range(removes[p].promise.backs)
       THEN [removes[c] EXCEPT !.out = out, !.cb = @ + 1,
                               !.promise.emitted = IF c = p THEN out ELSE @]
       ELSE removes[c]]

\* The pending marker after the callback's error branch.
\* (variant: the marker left in place)
removingAfterErrorKept == removing

removingAfterError == null

\* Callback of collection.remove, error branch.
\* (variant: promise.complete() called where promise.error(err) is)
removeErrCompleted(p, err) ==
  /\ removes' = [invoked(p, "ok") EXCEPT ![p].ans = err]
  /\ removeLog' = removeLog \o fire(removes[p].promise.backs, "ok")
  /\ removing' = removingAfterError
  /\ rmInflight' = rmInflight \ {p}
  /\ UNCHANGED rmSent

removeErr(p, err) ==
  /\ removes' = [invoked(p, err) EXCEPT ![p].ans = err]
  /\ removeLog' = removeLog \o fire(removes[p].promise.backs, err)
  /\ removing' = removingAfterError
  /\ rmInflight' = rmInflight \ {p}
  /\ UNCHANGED rmSent

\* The pending marker after the callback's success branch: the branch does
\* not assign self.$__.removing.
\* (variant: the marker cleared as in the error branch)
removingAfterOkCleared == null

removingAfterOk == removing

\* Callback of collection.remove, success branch.
removeOk(p) ==
  /\ removes' = [invoked(p, "ok") EXCEPT ![p].ans = "ok"]
  /\ removeLog' = removeLog \o fire(removes[p].promise.backs, "ok")
  /\ removing' = removingAfterOk
  /\ rmInflight' = rmInflight \ {p}
  /\ UNCHANGED rmSent

\* The backend answers the remove issued for promise p.
removeCallback(p) ==
  /\ p \in rmInflight
  /\ \/ \E err \in RemoveErrs : removeErr(p, err)
     \/ removeOk(p)
  /\ UNCHANGED docVars
  /\ UNCHANGED saveVars
  /\ UNCHANGED classVars

\* --------------------------------------------------------- ensureIndexes
\* The backend's ensureIndex is an environment that acknowledges each call
\* once, in a later step, with or without an error.

\* The record of an invocation: indexes is the queue schema.indexes()
\* returned (specs numbered 1..n), issued the collection.ensureIndex calls
\* made, out the calls not yet acknowledged, acks the acknowledgments and
\* events the 'index' notifications and cb invocations, in order.
newRun(n, hasCb) ==
  [n |-> n, hasCb |-> hasCb, indexes |-> [i \in 1..n |-> i],
   issued |-> << >>, out |-> {}, acks |-> << >>, events |-> << >>]

\* function done (err) { self.emit('index', err); cb && cb(err); }
done(run, err, inCall) ==
  [run EXCEPT !.events =
     @ \o <<[kind |-> "index", err |-> err, inCall |-> inCall]>>
       \o (IF run.hasCb
             THEN <<[kind |-> "cb", err |-> err, inCall |-> inCall]>>
             ELSE << >>)]

\* var index = indexes.shift();
\* (variant: the queue read from its end)
pop(q) == [index |-> q[Len(q)], rest |-> SubSeq(q, 1, Len(q) - 1)]

shift(q) == [index |-> Head(q), rest |-> Tail(q)]

\* function create (): take the next spec and send it, or finish.
create(run, inCall) ==
  IF run.indexes = << >>
    THEN done(run, "none", inCall)
    ELSE [run EXCEPT !.indexes = shift(run.indexes).rest,
                     !.issued = Append(@, shift(run.indexes).index),
                     !.out = @ \cup {shift(run.indexes).index}]

\* if (!indexes.length) return cb && process.nextTick(cb);
\* (variant: cb invoked before ensureIndexes returns)
completeEmptyNow(run) ==
  [run |-> [run EXCEPT !.events =
              IF run.hasCb
                THEN <<[kind |-> "cb", err |-> "none", inCall |-> TRUE]>>
                ELSE << >>],
   tick |-> FALSE]

completeEmpty(run) == [run |-> run, tick |-> run.hasCb]

ensureIndexes(n, hasCb) ==
  /\ Len(runs) < MaxRuns
  /\ IF n = 0
       THEN /\ runs' = Append(runs, completeEmpty(newRun(n, hasCb)).run)
            /\ ticks' = IF completeEmpty(newRun(n, hasCb)).tick
                          THEN Append(ticks, Len(runs) + 1)
                          ELSE ticks
       ELSE /\ runs' = Append(runs, create(newRun(n, hasCb), TRUE))
            /\ ticks' = ticks
  /\ UNCHANGED notIndex

\* The tick scheduled by process.nextTick(cb) runs: cb().
nextTick ==
  /\ ticks # << >>
  /\ runs' = [runs EXCEPT ![Head(ticks)].events =
                 Append(@, [kind |-> "cb", err |-> "none", inCall |-> FALSE])]
  /\ ticks' = Tail(ticks)
  /\ UNCHANGED notIndex

\* if (err) return done(err);
\* (variant: the error dropped and the next spec created)
ackErrorIgnored(run, err) == create(run, FALSE)

ackError(run, err) == done(run, err, FALSE)

\* The callback given to collection.ensureIndex, for spec k of invocation r.
ensureIndexAck(r, k, err) ==
  /\ r \in DOMAIN runs
  /\ k \in runs[r].out
  /\ LET acked == [runs[r] EXCEPT !.out = @ \ {k},
                                  !.acks = Append(@, [index |-> k, err |-> err])]
     IN runs' = [runs EXCEPT ![r] = IF err # "none" THEN ackError(acked, err)
                                                    ELSE create(acked, FALSE)]
  /\ UNCHANGED ticks
  /\ UNCHANGED notIndex

\* --------------------------------------------------------------- hydrate
\* Document.prototype.init is an environment: for each record it reports to
\* the callback it was given, with or without an error, either before it
\* returns ("now") or in a later step ("later").
Reports == {"now-ok", "now-err", "later-ok", "later-err"}

\* The two hydrate functions of the source.
Variants == {"Model.hydrate", "hydrate"}

\* Results handed to the callback: null, one entity, or a sequence of
\* entities; an entity is named by the record it was built from.
nullResult == [kind |-> "null", ents |-> << >>]
one(e) == [kind |-> "one", ents |-> <<e>>]
many(arr) == [kind |-> "many", ents |-> arr]

\* The array test of the final callback: Model.hydrate tests the argument
\* before wrapping it (docArray), hydrate tests docs after wrapping it.
isArrayAtEnd(variant, docArray) ==
  IF variant = "Model.hydrate" THEN docArray ELSE TRUE

\* callback(null, (docArray) ? arr : arr[0])
finalResult(variant, docArray, arr) ==
  IF isArrayAtEnd(variant, docArray) THEN many(arr) ELSE one(arr[1])

\* The callback invocations made by the init callbacks of the records in
\* set S, in record order: if (err) return callback(err, null).  An error
\* is named by the record whose initialization failed.
RECURSIVE errorCalls(_, _)
errorCalls(S, i) ==
  IF i = 0 THEN << >>
  ELSE errorCalls(S, i - 1) \o
         (IF i \in S THEN <<[err |-> i, res |-> nullResult]>> ELSE << >>)

hydrateCall(variant, docArray, n, report) ==
  /\ ~hyd.called
  /\ docArray \/ n = 1
  /\ LET arr == [i \in 1..n |-> i]
         nowErr == {i \in 1..n : report[i] = "now-err"}
         nowOk == {i \in 1..n : report[i] = "now-ok"}
     IN hyd' = [called |-> TRUE, variant |-> variant, docArray |-> docArray,
                n |-> n, arr |-> arr,
                count |-> n - Cardinality(nowOk),
                fails |-> {i \in 1..n : report[i] = "later-err"},
                pending |-> {i \in 1..n : report[i] \in {"later-ok", "later-err"}},
                log |-> errorCalls(nowErr, n) \o
                        <<[err |-> 0,
                           res |-> finalResult(variant, docArray, arr)]>>]

hydrate(variant, docArray, n, report) ==
  /\ hydrateCall(variant, docArray, n, report)
  /\ UNCHANGED notHydrate

\* The init of record i reports after hydrate has returned.
initReport(i) ==
  /\ hyd.called
  /\ i \in hyd.pending
  /\ hyd' = IF i \in hyd.fails
              THEN [hyd EXCEPT !.pending = @ \ {i},
                               !.log = Append(@, [err |-> i, res |-> nullResult])]
              ELSE [hyd EXCEPT !.pending = @ \ {i}, !.count = @ - 1]
  /\ UNCHANGED notHydrate

NextHydrate ==
  \/ \E variant \in Variants, docArray \in BOOLEAN, n \in 0..MaxDocs :
       \E report \in [1..n -> Reports] : hydrate(variant, docArray, n, report)
  \/ \E i \in 1..MaxDocs : initReport(i)

SpecHydrate == Init /\ [][NextHydrate]_vars

\* ------------------------------------------------ findById / findWithView
\* The lookups of the current model.js and those of the older one.
Finders == {"Model.findById", "Model.findWithView", "findById", "findWithView"}

\* The hydrate function a lookup hands the backend's result to.
hydrateOf(finder) ==
  IF finder \in {"Model.findById", "Model.findWithView"} THEN "Model.hydrate"
                                                         ELSE "hydrate"

\* Whether the lookup's callback goes on to hydrate after it has reported
\* an error: if (err) { return callback(err); } returns,
\* err && callback(err); falls through to hydrate(model, res, callback).
hydratesAfterError(finder) == finder \in {"findById", "findWithView"}

\* Model.findById(ids, callback) / Model.findWithView(view, opts, callback):
\* the backend call is issued.
find(finder) ==
  /\ fnd' = [called |-> TRUE, finder |-> finder, st |-> "pending",
             err |-> "none", log |-> << >>]
  /\ UNCHANGED notFind

\* The backend answers the lookup with an error; no result comes with it,
\* so a hydrate that is reached wraps undefined into one record.
findErr(err) ==
  /\ fnd.st = "pending"
  /\ fnd' = [fnd EXCEPT !.st = "failed", !.err = err,
                        !.log = <<[err |-> err]>>]
  /\ IF hydratesAfterError(fnd.finder)
       THEN \E report \in [1..1 -> Reports] :
              hydrateCall(hydrateOf(fnd.finder), FALSE, 1, report)
       ELSE UNCHANGED hyd
  /\ UNCHANGED notFindHydrate

\* The backend answers the lookup with n records.
findOk(docArray, n, report) ==
  /\ fnd.st = "pending"
  /\ fnd' = [fnd EXCEPT !.st = "found"]
  /\ hydrateCall(hydrateOf(fnd.finder), docArray, n, report)
  /\ UNCHANGED notFindHydrate

NextFind ==
  \/ /\ ~fnd.called
     /\ \E finder \in Finders : find(finder)
  \/ \E err \in Errs : findErr(err)
  \/ \E docArray \in BOOLEAN, n \in 0..MaxDocs :
       \E report \in [1..n -> Reports] : findOk(docArray, n, report)
  \/ \E i \in 1..MaxDocs : initReport(i)

SpecFind == Init /\ [][NextFind]_vars

\* ------------------------------------------------------- model registries
\* if (utils.isObject(schema) && !(schema instanceof Schema))
\*   schema = new Schema(schema);
\* the instance made by call k is numbered 10 + k.
schemaOf(arg, k) == IF arg = plainObject THEN 10 + k ELSE arg

\* Model.compile(name, schema, collectionName, connection, base)
compile(k, schema, coll, db) ==
  [id |-> k, schema |-> schema, db |-> db, coll |-> coll]

\* model.__subclass(conn, schema, collection): the subclass inherits the
\* schema of the model it is made from.
subclass(k, model, conn, coll) ==
  [id |-> k, schema |-> model.schema, db |-> conn, coll |-> coll]

\* The outcome of a model() call: what is returned or thrown, and whether
\* the returned model is assigned to this.models[name].
returned(model, store) == [kind |-> "model", model |-> model, store |-> store]
thrown(kind) == [kind |-> kind, model |-> noModel, store |-> FALSE]

\* schema instanceof Schema && schema != this.models[name].schema
\* (variant: the schemas are not compared)
overwritesNever(schema, cached) == FALSE

overwrites(schema, cached) == schema # noSchema /\ schema # cached.schema

\* if (!this.models[name]) { this.models[name] = model; }
\* (variant: the model compiled last replaces the one cached)
storedAlways(own) == TRUE

storedFirstOnly(own) == own.id = 0

\* Mongoose.prototype.model(name, schema, database, options), called on
\* the module: options is {} or { cache: false }.  With a cached model and
\* a database argument the function reads the identifier collection, which
\* it does not declare.
outcomeOfMongooseModel(k, name, schema, database, cache, connection) ==
  LET cached == reg.base[name]
  IN IF cached.id # 0 /\ cache
       THEN IF overwrites(schema, cached) THEN thrown("OverwriteModelError")
            ELSE IF database # noCollection THEN thrown("ReferenceError")
            ELSE returned(cached, FALSE)
       ELSE IF schema = noSchema THEN thrown("MissingSchemaError")
            ELSE returned(compile(k, schema, database, connection), cache)

\* Connection.prototype.model(name, schema, collection)
outcomeOfConnectionModel(k, conn, name, schema, collection) ==
  LET own == reg.conn[conn][name]
      shared == reg.base[name]
  IN IF own.id # 0 /\ collection = noCollection
       THEN IF overwrites(schema, own) THEN thrown("OverwriteModelError")
            ELSE returned(own, FALSE)
       ELSE IF schema # noSchema
         THEN LET made == outcomeOfMongooseModel(k, name, schema, collection,
                                                 FALSE, conn)
              IN returned(made.model, storedFirstOnly(own))
       ELSE IF own.id # 0 /\ collection # noCollection
         THEN returned(subclass(k, own, conn, collection), FALSE)
       ELSE IF shared.id = 0 THEN thrown("MissingSchemaError")
       ELSE IF conn = shared.db
                 /\ (collection = noCollection \/ collection = shared.coll)
         THEN returned(shared, storedFirstOnly(own))
       ELSE returned(subclass(k, shared, conn, collection), TRUE)

callRecord(fn, name, conn, schema, coll, cache, out) ==
  [fn |-> fn, name |-> name, conn |-> conn, schema |-> schema, coll |-> coll,
   cache |-> cache, kind |-> out.kind, model |-> out.model]

mongooseModel(name, arg, database, cache) ==
  LET k == reg.n + 1
      schema == schemaOf(arg, k)
      out == outcomeOfMongooseModel(k, name, schema, database, cache, "default")
  IN /\ reg.n < MaxCalls
     /\ reg' = [reg EXCEPT
                  !.n = k,
                  !.base[name] = IF out.store THEN out.model ELSE @,
                  !.last = callRecord("Mongoose.model", name, "none", schema,
                                  database, cache, out)]
     /\ UNCHANGED notRegistry

connectionModel(conn, name, arg, collection) ==
  LET k == reg.n + 1
      schema == schemaOf(arg, k)
      out == outcomeOfConnectionModel(k, conn, name, schema, collection)
  IN /\ reg.n < MaxCalls
     /\ reg' = [reg EXCEPT
                  !.n = k,
                  !.conn[conn][name] = IF out.store THEN out.model ELSE @,
                  !.last = callRecord("Connection.model", name, conn, schema,
                                  collection, TRUE, out)]
     /\ UNCHANGED notRegistry

NextRegistry ==
  \/ \E name \in Names, arg \in SchemaArgs, database \in Collections,
        cache \in BOOLEAN : mongooseModel(name, arg, database, cache)
  \/ \E conn \in Conns, name \in Names, arg \in SchemaArgs,
        collection \in Collections : connectionModel(conn, name, arg, collection)

SpecRegistry == Init /\ [][NextRegistry]_vars

\* ---------------------------------------------------------- Model.create
\* Each item is saved by Model.prototype.save on a fresh document; the
\* backend settles each save once, in any order.

\* promise.error(err): the handler given to new Promise(fn) is invoked with
\* the first error only; a promise that has emitted ignores later errors.
promiseError(c, err) ==
  IF c.emitted = "none"
    THEN [c EXCEPT !.emitted = err,
                   !.log = Append(@, [err |-> err, docs |-> << >>,
                                      pending |-> c.out])]
    ELSE c

\* if (err) return promise.error(err);
\* (variant: fn called with the error directly)
signalErrorDirect(c, err) ==
  [c EXCEPT !.log = Append(@, [err |-> err, docs |-> << >>, pending |-> c.out])]

signalError(c, err) == promiseError(c, err)

\* --count || fn.apply(null, docs)
\* (variant: fn applied at the first successful save)
countedDownAlways(count) == TRUE

countedDown(count) == count = 0

\* fn.apply(null, docs): docs[i+1] is the document made from item i
\* (variant: the documents in the order their saves completed)
createdInSettleOrder(c) == [j \in DOMAIN c.order |-> c.order[j].item]

created(c) == c.docs

signalSuccess(c) ==
  IF countedDown(c.count - 1)
    THEN [c EXCEPT !.count = @ - 1,
                   !.log = Append(@, [err |-> "none", docs |-> created(c),
                                      pending |-> c.out])]
    ELSE [c EXCEPT !.count = @ - 1]

\* Model.create(docs, fn) with n items; with none, fn(null) is called at once.
createCall(n) ==
  /\ ~cre.called
  /\ cre' = [called |-> TRUE, n |-> n, docs |-> [i \in 1..n |-> i],
             count |-> n, emitted |-> "none", out |-> 1..n, order |-> << >>,
             log |-> IF n = 0
                       THEN <<[err |-> "none", docs |-> << >>, pending |-> {}]>>
                       ELSE << >>]
  /\ UNCHANGED notCreate

\* The callback given to doc.save for item i.
itemSaved(i, err) ==
  /\ cre.called
  /\ i \in cre.out
  /\ LET c == [cre EXCEPT !.out = @ \ {i},
                          !.order = Append(@, [item |-> i, err |-> err])]
     IN cre' = IF err # "none" THEN signalError(c, err) ELSE signalSuccess(c)
  /\ UNCHANGED notCreate

NextCreate ==
  \/ \E n \in 0..MaxItems : createCall(n)
  \/ \E i \in 1..MaxItems, err \in Errs \cup {"none"} : itemSaved(i, err)

SpecCreate == Init /\ [][NextCreate]_vars

\* --------------------------------------------- assignRawDocsToIdStructure
\* Entries of rawIds and of the arrays built from it.  An entry is an id, a
\* null, a nested array, a record of vals, or a hole of a sparse array.
idEntry(v) == [t |-> "id", v |-> v, n |-> 0, items |-> << >>]
nullEntry == [t |-> "null", v |-> "", n |-> 0, items |-> << >>]
arrayEntry(items) == [t |-> "array", v |-> "", n |-> 0, items |-> items]
hole == [t |-> "hole", v |-> "", n |-> 0, items |-> << >>]

\* A record of vals: its _id, and n to tell it from records with the same _id.
docEntry(v, n) == [t |-> "doc", v |-> v, n |-> n, items |-> << >>]

\* String(id), String(vals[f]._id): ids are strings; String(null) is "null".
String(e) == IF e.t = "null" THEN "null" ELSE e.v

isArray(e) == e.t = "array"

\* newOrder.push(x)
push(newOrder, x) == Append(newOrder, x)

\* newOrder[k] = x on a possibly shorter array (k counts from 1): the
\* positions skipped become holes.
put(newOrder, k, x) ==
  [j \in 1..(IF k > Len(newOrder) THEN k ELSE Len(newOrder)) |->
     IF j = k THEN x ELSE IF j <= Len(newOrder) THEN newOrder[j] ELSE hole]

\* for (f ...) if (sid == String(vals[f]._id)) { ...; break }: the first
\* matching position of vals, 0 when there is none.
firstMatch(sid, vals) ==
  LET M == {f \in DOMAIN vals : String(vals[f]) = sid}
  IN IF M = {} THEN 0 ELSE CHOOSE f \in M : \A g \in M : f <= g

\* newOrder[f] = vals[f]: the slot taken by the record found at f for the
\* id requested at i  (variant: the slot of the requested id)
sortedSlotOfRequest(i, f) == i

sortedSlot(i, f) == f

\* if (!found) newOrder.push(id)  (variant: the id is left out)
missLeftOut(newOrder, id) == newOrder

miss(newOrder, id) == push(newOrder, id)

\* newOrder.forEach(function (doc, i) { rawIds[i] = doc }) on the emptied
\* rawIds; forEach skips the holes of newOrder.
RECURSIVE writeBack(_, _)
writeBack(newOrder, k) ==
  IF k = 0 THEN << >>
  ELSE IF newOrder[k].t = "hole" THEN writeBack(newOrder, k - 1)
  ELSE put(writeBack(newOrder, k - 1), k, newOrder[k])

RECURSIVE assignRawDocsToIdStructure(_, _, _, _)
RECURSIVE loop(_, _, _, _, _)

\* newOrder after the first i iterations of the loop over rawIds.
loop(rawIds, vals, sort, recursed, i) ==
  IF i = 0 THEN << >>
  ELSE
    LET newOrder == loop(rawIds, vals, sort, recursed, i - 1)
        sorting == sort /\ Len(rawIds) > 1
        id == rawIds[i]
        f == firstMatch(String(id), vals)
    IN IF isArray(id)
         THEN push(newOrder,
                   arrayEntry(assignRawDocsToIdStructure(id.items, vals, sort, TRUE)))
       ELSE IF id.t = "null" /\ ~sorting
         THEN push(newOrder, id)
       ELSE IF recursed
         THEN IF f # 0
                THEN IF sorting
                       THEN put(newOrder, sortedSlot(i, f), vals[f])
                       ELSE push(newOrder, vals[f])
                ELSE miss(newOrder, id)
       ELSE put(newOrder, i, IF f # 0 THEN vals[f] ELSE nullEntry)

\* The content of rawIds when the function returns.
assignRawDocsToIdStructure(rawIds, vals, sort, recursed) ==
  LET newOrder == loop(rawIds, vals, sort, recursed, Len(rawIds))
  IN writeBack(newOrder, Len(newOrder))

\* The ids a caller asks for and the _ids the backend holds.
\* "null" is an ordinary string id, as a backend with string keys may hold.
RequestedIds == {"a", "b", "null"}
FoundIds == RequestedIds

SeqsUpTo(S, n) == UNION {[1..k -> S] : k \in 0..n}

Scalars == {idEntry(v) : v \in RequestedIds} \cup {nullEntry}

\* The nested arrays tried: empty, or holding one id or null.
Nested == {arrayEntry(<< >>)} \cup {arrayEntry(<<e>>) : e \in Scalars}

\* vals: position f holds a record with some _id.
Found == UNION {{[f \in 1..k |-> docEntry(ids[f], f)] : ids \in [1..k -> FoundIds]} :
                k \in 0..MaxFound}

reorder(rawIds, vals, sort, recursed) ==
  /\ ~reo.called
  /\ reo' = [called |-> TRUE, rawIds |-> rawIds, vals |-> vals, sort |-> sort,
             recursed |-> recursed,
             result |-> assignRawDocsToIdStructure(rawIds, vals, sort, recursed)]
  /\ UNCHANGED notReorder

\* One call is followed per behaviour.
NextReorder ==
  /\ ~reo.called
  /\ \E rawIds \in SeqsUpTo(Scalars \cup Nested, MaxIds), vals \in Found,
        sort \in BOOLEAN, recursed \in BOOLEAN :
          reorder(rawIds, vals, sort, recursed)

SpecReorder == Init /\ [][NextReorder]_vars

\* ------------------------------------------------------- Model._getSchema
\* A path is the sequence of its dot-separated parts (path.split('.')); a
\* schema is its path table, from keys to rules.  A rule has a type: "plain"
\* (no caster), or an array with a caster: "prims" (array of primitives, no
\* embedded schema), "mixed" (array of Mixed), "docs" (array of embedded
\* documents, with their schema).  depth tells the schemas of a nesting
\* apart: 0 for the model's schema, 1 for a schema embedded in it, and so on.
Parts == {"a", "b", "$"}
Keys == {<<"a">>, <<"b">>, <<"a", "b">>}

absent == [type |-> "absent", depth |-> 0, key |-> << >>, schema |-> << >>]
rule(type, depth, key) == [type |-> type, depth |-> depth, key |-> key, schema |-> << >>]
docs(depth, key, schema) == [type |-> "docs", depth |-> depth, key |-> key, schema |-> <<schema>>]

\* The schemas tried: a is absent, plain or any array; b is plain or
\* an array of Mixed; the dotted key a.b is declared in the model's schema only.
rulesOfA(depth, Embedded) ==
  {absent} \cup {rule(t, depth, <<"a">>) : t \in {"plain", "prims", "mixed"}}
    \cup {docs(depth, <<"a">>, S) : S \in Embedded}

rulesOfB(depth) == {rule(t, depth, <<"b">>) : t \in {"plain", "mixed"}}

rulesOfAB(depth) ==
  {absent} \cup {rule(t, depth, <<"a", "b">>) : t \in {"plain", "mixed"}}

table(ra, rb, rab) ==
  [k \in Keys |-> IF k = <<"a">> THEN ra ELSE IF k = <<"b">> THEN rb ELSE rab]

Innermost == {table(ra, rb, absent) : ra \in rulesOfA(2, {}), rb \in rulesOfB(2)}
Embedded == {table(ra, rb, absent) : ra \in rulesOfA(1, Innermost), rb \in rulesOfB(1)}
Schemas == {table(ra, rb, rab) : ra \in rulesOfA(0, Embedded), rb \in rulesOfB(0),
                                 rab \in rulesOfAB(0)}

\* schema.path(trypath): the rule of the path table, or nothing.
path(schema, trypath) == IF trypath \in Keys THEN schema[trypath] ELSE absent

\* What _getSchema gives back: a rule, the caster of an array rule,
\* undefined, or a TypeError raised by a call on an undefined schema.
ruleResult(r) == [kind |-> "rule", rule |-> <<r>>]
casterResult(r) == [kind |-> "caster", rule |-> <<r>>]
undefinedResult == [kind |-> "undefined", rule |-> << >>]
TypeError == [kind |-> "TypeError", rule |-> << >>]

hasCaster(r) == r.type \in {"prims", "mixed", "docs"}

\* if (foundschema.caster instanceof Types.Mixed) return foundschema.caster
\* (variant: the array rule is returned)
arrayOfMixedItself(foundschema) == ruleResult(foundschema)

arrayOfMixed(foundschema) == casterResult(foundschema)

\* search(parts.slice(p + 1), ...): the first part after the '$' at parts[p]
\* (variant: the '$' is not skipped)
afterWildcardKept(p) == p + 1

afterWildcard(p) == p + 2

\* var p = parts.length + 1; while (p--): the first prefix tried is the
\* whole of parts  (variant: only the first part is tried)
longestFirstPart(parts) == IF parts = << >> THEN 0 ELSE 1

longest(parts) == Len(parts)

\* var pathschema = schema.path(path); if (pathschema) return pathschema
\* (variant: no look-up of the whole path before the search)
exactSkipped(schema, parts) == absent

exact(schema, parts) == path(schema, parts)

RECURSIVE search(_, _)
RECURSIVE try(_, _, _)

\* The iterations of the while loop from prefix length p down to 0.
try(parts, schema, p) ==
  LET foundschema == path(schema, SubSeq(parts, 1, p))
      rest(from) == SubSeq(parts, from, Len(parts))
  IN IF foundschema.type # "absent"
       THEN IF hasCaster(foundschema)
              THEN IF foundschema.type = "mixed"
                     THEN arrayOfMixed(foundschema)
                   ELSE IF p # Len(parts)
                     THEN IF parts[p + 1] = "$"
                            THEN search(rest(afterWildcard(p)), foundschema.schema)
                            ELSE search(rest(p + 1), foundschema.schema)
                   ELSE ruleResult(foundschema)
              ELSE ruleResult(foundschema)
     ELSE IF p = 0 THEN undefinedResult
     ELSE try(parts, schema, p - 1)

\* search(parts, schema); schema is << >> when foundschema.schema is
\* undefined, and then schema.path raises.
search(parts, schema) ==
  IF schema = << >> THEN TypeError
  ELSE try(parts, schema[1], longest(parts))

_getSchema(schema, parts) ==
  LET pathschema == exact(schema, parts)
  IN IF pathschema.type # "absent" THEN ruleResult(pathschema)
     ELSE search(parts, <<schema>>)

Paths == UNION {[1..k -> Parts] : k \in 1..MaxParts}

resolve(schema, parts) ==
  /\ ~lookup.called
  /\ lookup' = [called |-> TRUE, schema |-> <<schema>>, parts |-> parts,
                out |-> _getSchema(schema, parts)]
  /\ UNCHANGED notResolve

\* One call is followed per behaviour.
NextResolve ==
  /\ ~lookup.called
  /\ \E schema \in Schemas, parts \in Paths : resolve(schema, parts)

SpecResolve == Init /\ [][NextResolve]_vars

\* The document with its writes only, and a field that changes value.
NextSnapshot ==
  \/ \E v \in SnapshotVals : set(v)
  \/ \E fn \in BOOLEAN : save(fn)
  \/ \E c \in 1..MaxSaves : handleSave(c)

SpecSnapshot == Init /\ [][NextSnapshot]_vars

Next ==
  \/ \E v \in Vals : set(v)
  \/ save(TRUE)
  \/ \E c \in 1..MaxSaves : handleSave(c)
  \/ remove
  \/ \E p \in 1..MaxRemoves : removeCallback(p)

Spec == Init /\ [][Next]_vars

NextIndex ==
  \/ \E n \in 0..MaxIndexes, hasCb \in BOOLEAN : ensureIndexes(n, hasCb)
  \/ nextTick
  \/ \E r \in 1..MaxRuns, k \in 1..MaxIndexes, err \in Errs \cup {"none"} :
       ensureIndexAck(r, k, err)

SpecIndex == Init /\ [][NextIndex]_vars

\* ------------------------------------------------------------ properties
Calls == DOMAIN saves
RmCalls == DOMAIN removes

\* Save call c was an insert that was reported failed while no other save
\* had been called since it was issued.
soloFailedInsert(c) ==
  /\ saves[c].op = "insert"
  /\ saves[c].st = "err"
  /\ saves[c].solo

\* C1: when an insert that stayed the entity's only outstanding save (no
\* other save was called during its round trip) is reported failed, isNew is
\* true once the failure is delivered, it stays true until the next save
\* call, and that next save call takes the insert branch.
C1_FailedInsertRetriesAsInsert ==
  /\ \A c \in Calls : soloFailedInsert(c) => saves[c].isNewAt
  /\ (Len(saves) > 0 /\ soloFailedInsert(Len(saves))) => isNew
  /\ \A c \in Calls :
       (c > 1 /\ soloFailedInsert(c - 1)) => saves[c].op = "insert"

C1_Witness ==
  \E c \in Calls : c > 1 /\ soloFailedInsert(c - 1) /\ saves[c].op = "insert"

\* C2: whenever an insert issued by save is reported failed, isNew is true
\* right after the failure is delivered, in every interleaving of save calls.
C2_FailedInsertAlwaysResets ==
  \A c \in Calls :
    (saves[c].op = "insert" /\ saves[c].st = "err") => saves[c].isNewAt

\* C3: when a save that took the update branch is reported failed, isNew is
\* false after the failure is delivered, in every interleaving.
C3_FailedUpdateStaysNotNew ==
  \A c \in Calls :
    (saves[c].op = "update" /\ saves[c].st = "err") => ~saves[c].isNewAt

C3_Witness ==
  \E c \in Calls : saves[c].op = "update" /\ saves[c].st = "err"

\* C4 as stated: isNew is false only if the backend has already reported
\* success for an insert of the entity.
C4_NotNewOnlyAfterSuccess ==
  ~isNew => \E c \in Calls : saves[c].op = "insert" /\ saves[c].st = "ok"

\* C4 amended: isNew is false only if save has issued an insert that is
\* still outstanding, or was reported successful, or was followed by a
\* further save call; it is false from the moment the insert is issued.
C4_NotNewOnlyAfterInsertIssued ==
  ~isNew => \E c \in Calls :
              /\ saves[c].op = "insert"
              /\ \/ saves[c].st = "pending"
                 \/ saves[c].st = "ok"
                 \/ c < Len(saves)

C4_Witness ==
  /\ ~isNew
  /\ \E c \in Calls : saves[c].op = "insert" /\ saves[c].st = "pending"
  /\ \A c \in Calls : saves[c].st # "ok"

\* The handler of save call c is invoked with an error in this step.
failsNow(c) == saves[c].st = "pending" /\ saves'[c].st = "err"

\* C5: the delivery of a save's failure (insert or update) leaves _id and
\* _rev as they were; when no other save was answered since the failed save
\* was issued they are exactly the values of the moment it was issued.
C5_FailedSaveKeepsIdRev ==
  [][\A c \in Calls :
       failsNow(c) =>
         /\ _id' = _id
         /\ _rev' = _rev
         /\ lastDelivered = saves[c].prev =>
              (_id' = saves[c].was.id /\ _rev' = saves[c].was.rev)]_vars

C5_Witness ==
  \E c \in Calls :
    saves[c].st = "err" /\ saves[c].idAt # undefined /\ saves[c].idAt = _id

\* Save call c was issued right after the success of save call p was
\* signalled, no other handler having run in between.
follows(c, p) == p # 0 /\ saves[c].prev = p /\ saves[p].st = "ok"

\* C6: at the moment a save's success is signalled _id and _rev are the
\* values the backend returned for that write, and a save that follows is
\* sent as an update carrying them.
C6_SuccessAdoptsIdRev ==
  /\ \A c \in Calls :
       saves[c].st = "ok" =>
         (saves[c].idAt = saves[c].res.id /\ saves[c].revAt = saves[c].res.rev)
  /\ \A c \in Calls : \A p \in Calls :
       follows(c, p) =>
         /\ saves[c].op = "update"
         /\ saves[c].obj.id = saves[p].res.id
         /\ saves[c].obj.rev = saves[p].res.rev

C6_Witness ==
  \E c \in Calls : \E p \in Calls : follows(c, p) /\ saves[c].op = "update"

\* C7: every save call has sent exactly one backend write, answered or not,
\* failed or not; only a further save call sends a further write.
C7_OneWritePerSave ==
  /\ \A c \in Calls : saves[c].sent = 1
  /\ \A c \in Calls : c \in inflight <=> saves[c].st = "pending"

C7_Witness ==
  \E c \in Calls :
    saves[c].st = "err" /\ saves[c].sent = 1 /\ c < Len(saves)

\* The backend remove calls issued for promise p.
sentFor(p) == {k \in DOMAIN rmSent : rmSent[k].p = p}

\* C8: a remove call made while a removal is in flight issues no backend
\* call and only attaches its handler to the in-flight operation, so that
\* operation has exactly one backend remove call and never two are
\* outstanding.
C8_OneBackendRemoveInFlight ==
  /\ Cardinality(rmInflight) <= 1
  /\ \A c \in RmCalls :
       removes[c].at = "pending" =>
         /\ ~removes[c].issued
         /\ c \in Range(removes[removes[c].p].promise.backs)
         /\ Cardinality(sentFor(removes[c].p)) = 1
         /\ sentFor(c) = {}

C8_Witness ==
  \E c \in RmCalls : \E d \in RmCalls :
    c < d /\ removes[c].at = "pending" /\ removes[d].at = "pending"
      /\ removes[c].p = removes[d].p

\* Remove call c made the removal p or attached to p while it was in flight.
waitsOn(c, p) == removes[c].p = p /\ removes[c].at \in {"none", "pending"}

\* C9: on completion of a removal every handler attached to it is invoked
\* once, all with the backend's outcome for that removal (the same error, or
\* success), in the order of the remove calls; none is invoked before.
C9_HandlersSameOutcomeInOrder ==
  /\ \A c \in RmCalls : \A p \in RmCalls :
       waitsOn(c, p) =>
         IF removes[p].ans = "pending"
           THEN removes[c].cb = 0
           ELSE removes[c].cb = 1 /\ removes[c].out = removes[p].ans
  /\ \A i \in DOMAIN removeLog : \A j \in DOMAIN removeLog :
       (i < j /\ removes[removeLog[i].call].p = removes[removeLog[j].call].p)
         => removeLog[i].call < removeLog[j].call
  /\ \A i \in DOMAIN removeLog :
       removeLog[i].out = removes[removeLog[i].call].out

C9_Witness ==
  \E p \in RmCalls : \E c \in RmCalls : \E d \in RmCalls :
    /\ p < c /\ c < d /\ waitsOn(c, p) /\ waitsOn(d, p)
    /\ removes[p].ans \in Errs
    /\ removes[c].cb = 1 /\ removes[d].cb = 1

\* A remove call is made in this step.
removeCalled == Len(removes') = Len(removes) + 1

\* The latest removal was reported failed and none is in flight.
lastRemovalFailed ==
  /\ rmInflight = {}
  /\ Len(rmSent) > 0
  /\ removes[rmSent[Len(rmSent)].p].ans \in Errs

removedOk(p) == removes[p].issued /\ removes[p].ans = "ok"

\* C11 as stated: once the success of a removal has been signalled the
\* entity has no pending-removal marker.
C11_SuccessClearsMarker ==
  \A p \in RmCalls : removedOk(p) => removing = null

\* C11 amended: a successful removal leaves the marker in place; after the
\* success has been signalled the marker still designates that removal,
\* which is completed and has no backend call outstanding.
C11_SuccessKeepsMarker ==
  \A p \in RmCalls :
    removedOk(p) =>
      /\ removing = p
      /\ removes[p].promise.emitted = "ok"
      /\ rmInflight = {}

C11_Witness ==
  \E p \in RmCalls : removedOk(p) /\ removing = p /\ removes[p].cb = 1

\* A save call is made in this step.
saveCalled == Len(saves') = Len(saves) + 1

\* Some removal of the entity has been reported successful.
removed == \E p \in RmCalls : removedOk(p)

\* C12 as stated: after a successful remove no later save or remove call
\* issues a backend call.
C12_NoBackendCallAfterRemove ==
  [][removed =>
       /\ removeCalled => rmSent' = rmSent
       /\ saveCalled => inflight' = inflight]_vars

\* C12 amended: after a successful remove no later remove call issues a
\* backend call, it attaches to the completed removal and its handler is
\* invoked with success; a later save call still sends its write.
C12_NoBackendRemoveAfterRemove ==
  /\ [](\A p \in RmCalls : \A c \in RmCalls :
          (removedOk(p) /\ c > p) =>
            /\ ~removes[c].issued
            /\ removes[c].p = p
            /\ (removes[c].at = "ok" => (removes[c].cb = 1 /\ removes[c].out = "ok")))
  /\ [][removed =>
          /\ removeCalled => (rmSent' = rmSent /\ rmInflight' = rmInflight)
          /\ saveCalled => inflight' = inflight \cup {Len(saves')}]_vars

C12_Witness ==
  \E p \in RmCalls : \E c \in RmCalls :
    removedOk(p) /\ c > p /\ removes[c].at = "ok" /\ ~removes[c].issued

\* ------------------------------------------------ properties: ensureIndexes
Runs == DOMAIN runs

\* The events of kind k of a run, in order.
eventsOf(run, k) == SelectSeq(run.events, LAMBDA e : e.kind = k)

\* C13: within one invocation the specs are sent in queue order, each at
\* most once, spec k+1 only after the acknowledgment of spec k, so at most
\* one ensureIndex call of the invocation is outstanding.
C13_OneByOneInQueueOrder ==
  \A r \in Runs :
    /\ \A i \in DOMAIN runs[r].issued : runs[r].issued[i] = i
    /\ \A i \in DOMAIN runs[r].acks : runs[r].acks[i].index = i
    /\ Len(runs[r].issued) <= runs[r].n
    /\ Cardinality(runs[r].out) <= 1
    /\ Len(runs[r].issued) = Len(runs[r].acks) + Cardinality(runs[r].out)
    /\ runs[r].indexes =
         [i \in 1..(runs[r].n - Len(runs[r].issued)) |->
            i + Len(runs[r].issued)]

C13_Witness ==
  \E r \in Runs :
    /\ runs[r].n >= 3
    /\ Len(runs[r].issued) = runs[r].n
    /\ Len(runs[r].acks) = runs[r].n

\* The acknowledgment of spec i of run r carried an error.
failedAt(r, i) == i \in DOMAIN runs[r].acks /\ runs[r].acks[i].err # "none"

\* C14: when the backend reports an error for a spec, no later spec of the
\* queue is sent and the completion ('index' notification and cb) carries
\* that spec's error.
C14_FirstErrorStopsQueue ==
  \A r \in Runs : \A i \in 1..MaxIndexes :
    failedAt(r, i) =>
      /\ Len(runs[r].issued) = i
      /\ Len(runs[r].acks) = i
      /\ runs[r].out = {}
      /\ Len(eventsOf(runs[r], "index")) = 1
      /\ \A e \in DOMAIN runs[r].events :
           runs[r].events[e].err = runs[r].acks[i].err
      /\ runs[r].hasCb => Len(eventsOf(runs[r], "cb")) = 1

C14_Witness ==
  \E r \in Runs :
    runs[r].n = 3 /\ failedAt(r, 2) /\ runs[r].hasCb /\ Len(runs[r].events) = 2

\* Invocation r has nothing more to do: nothing outstanding, nothing
\* scheduled, and its queue drained or stopped by an error.
finished(r) ==
  /\ runs[r].out = {}
  /\ \A t \in DOMAIN ticks : ticks[t] # r
  /\ \/ runs[r].indexes = << >>
     \/ \E i \in 1..MaxIndexes : failedAt(r, i)

\* C15: every invocation, an empty spec list included, raises exactly one
\* 'index' notification carrying the completion error, and raises it before
\* invoking cb with the same error.
C15_OneIndexEventThenCb ==
  \A r \in Runs :
    /\ Len(eventsOf(runs[r], "index")) <= 1
    /\ finished(r) => Len(eventsOf(runs[r], "index")) = 1
    /\ \A e \in DOMAIN runs[r].events :
         runs[r].events[e].kind = "cb" =>
           /\ e > 1
           /\ runs[r].events[e - 1].kind = "index"
           /\ runs[r].events[e - 1].err = runs[r].events[e].err

\* Invocation r found no index and was given a cb.
emptyWithCb(r) == runs[r].n = 0 /\ runs[r].hasCb

scheduled(r) == \E t \in DOMAIN ticks : ticks[t] = r

\* C16: with an empty spec list cb is invoked exactly once, without error,
\* and not before ensureIndexes has returned: it is still to come when the
\* call returns and runs in a later tick.
C16_EmptyListCompletesLater ==
  \A r \in Runs :
    emptyWithCb(r) =>
      /\ Len(eventsOf(runs[r], "cb")) = (IF scheduled(r) THEN 0 ELSE 1)
      /\ Cardinality({t \in DOMAIN ticks : ticks[t] = r}) <= 1
      /\ \A e \in DOMAIN runs[r].events :
           /\ runs[r].events[e].err = "none"
           /\ ~runs[r].events[e].inCall

C16_Witness ==
  \E r \in Runs :
    emptyWithCb(r) /\ ~scheduled(r) /\ Len(eventsOf(runs[r], "cb")) = 1

\* ------------------------------------------------------ hydrate properties
\* The callback invocations of the hydrate call that carry no error.
successCalls == {k \in DOMAIN hyd.log : hyd.log[k].err = 0}

\* The callback invocations of the hydrate call that carry an error.
failureCalls == {k \in DOMAIN hyd.log : hyd.log[k].err # 0}

\* C17: hydrate preserves the shape of its input: a single record yields a
\* single entity, a sequence of n records yields a sequence of n entities,
\* entity i built from record i.
C17_HydratePreservesShape ==
  \A k \in successCalls :
    hyd.log[k].res = IF hyd.docArray
                       THEN many([i \in 1..hyd.n |-> i])
                       ELSE one(1)

\* C18: if the initialization of any record fails during Model.hydrate, the
\* caller receives that error and never an entity or a sequence of entities
\* for that call.
C18_NoResultAfterInitError ==
  (hyd.variant = "Model.hydrate" /\ failureCalls # {}) =>
    \A k \in DOMAIN hyd.log : hyd.log[k].res.kind = "null"

\* ------------------------------------------------- Model.create properties
\* Positions in the settle order at which an item save failed.
failedSaves == {j \in DOMAIN cre.order : cre.order[j].err # "none"}

firstFailed == CHOOSE j \in failedSaves : \A j2 \in failedSaves : j <= j2

\* Items whose save settled at or before position j of the settle order.
settledBy(j) == {cre.order[j2].item : j2 \in 1..j}

\* C19 (as stated): the handler of Model.create is invoked, with success or
\* with an error, only when no item save is outstanding.
C19_SignalOnlyAfterAllSettled ==
  \A k \in DOMAIN cre.log : cre.log[k].pending = {}

\* C19 (amended): success is signalled only when every item's save has
\* settled, all of them successfully; an error is signalled in the step
\* the first failing save settles, whatever is still outstanding then.
C19_SuccessAfterAllErrorAtFirstFailure ==
  \A k \in DOMAIN cre.log :
    IF cre.log[k].err = "none"
      THEN /\ cre.log[k].pending = {}
           /\ cre.out = {}
           /\ failedSaves = {}
           /\ cre.log[k].docs = [i \in 1..cre.n |-> i]
      ELSE /\ failedSaves # {}
           /\ cre.log[k].pending = (1..cre.n) \ settledBy(firstFailed)

C19_Witness ==
  /\ Len(cre.log) = 1
  /\ cre.log[1].err # "none"
  /\ cre.log[1].pending # {}

\* C20: when one or more item saves fail the handler is signalled exactly
\* once for the whole call, with the error of the first save that failed,
\* and no other item's save is dropped: each is outstanding or has settled.
C20_OneSignalFirstError ==
  failedSaves # {} =>
    /\ Len(cre.log) = 1
    /\ cre.log[1].err = cre.order[firstFailed].err
    /\ cre.out \cup settledBy(Len(cre.order)) = 1..cre.n
    /\ cre.out \cap settledBy(Len(cre.order)) = {}

C20_Witness ==
  /\ cre.n = 3
  /\ cre.out = {}
  /\ cre.order[1].err = "conflict"
  /\ cre.order[2].err = "unavailable"
  /\ cre.order[3].err = "none"
  /\ Len(cre.log) = 1
  /\ cre.log[1].err = "conflict"

\* C21: when every item save succeeds the handler is invoked exactly once,
\* with the created entities in the order of the input items, whatever the
\* order in which the saves completed; it is not invoked before the last
\* save has completed.
C21_SuccessOnceInInputOrder ==
  (cre.called /\ failedSaves = {}) =>
    IF cre.out = {}
      THEN /\ Len(cre.log) = 1
           /\ cre.log[1].err = "none"
           /\ cre.log[1].docs = [i \in 1..cre.n |-> i]
      ELSE cre.log = << >>

C21_Witness ==
  /\ cre.n = 3
  /\ cre.out = {}
  /\ failedSaves = {}
  /\ cre.order[1].item = 3
  /\ cre.order[2].item = 1
  /\ cre.log[1].docs = <<1, 2, 3>>

\* ---------------------------- properties: assignRawDocsToIdStructure
Slots == DOMAIN reo.rawIds

\* The call was made with a sort option that takes effect.
sortingCall == reo.sort /\ Len(reo.rawIds) > 1

\* Positions of the found records whose _id equals the id requested at i.
matches(i) ==
  {f \in DOMAIN reo.vals : reo.rawIds[i].t = "id" /\ reo.vals[f].v = reo.rawIds[i].v}

\* The first found record for the id requested at i.
firstFound(i) == CHOOSE f \in matches(i) : \A g \in matches(i) : f <= g

\* C22: in find-one mode without nested sequences the result has the
\* length of requestedIds and slot i holds the first found record with the
\* id requested at i, or null when there is none or the requested id is null.
C22_FindOneSlotPerRequest ==
  (reo.called /\ ~reo.recursed /\ \A i \in Slots : ~isArray(reo.rawIds[i])) =>
    /\ Len(reo.result) = Len(reo.rawIds)
    /\ \A i \in Slots :
         reo.result[i] = IF matches(i) = {} THEN nullEntry
                         ELSE reo.vals[firstFound(i)]

\* C23 (as stated): in find-many mode with a sort in effect each matched
\* record is placed at the index of its matching requested id.
C23_SortedFollowsRequestedOrder ==
  (reo.called /\ reo.recursed /\ sortingCall) =>
    \A i \in Slots :
      matches(i) # {} =>
        /\ i <= Len(reo.result)
        /\ reo.result[i] = reo.vals[firstFound(i)]

\* C23 (amended): in find-many mode with a sort in effect each matched
\* record is placed at the index it has among the found records, so the
\* matched records keep the order of the found records.
C23_SortedFollowsFoundOrder ==
  (reo.called /\ reo.recursed /\ sortingCall) =>
    \A i \in Slots :
      matches(i) # {} =>
        /\ firstFound(i) <= Len(reo.result)
        /\ reo.result[firstFound(i)] = reo.vals[firstFound(i)]

C23_Witness ==
  /\ reo.called /\ reo.recursed /\ reo.sort
  /\ reo.rawIds = <<idEntry("a"), idEntry("b")>>
  /\ reo.vals = <<docEntry("b", 1), docEntry("a", 2)>>
  /\ reo.result = <<docEntry("b", 1), docEntry("a", 2)>>

\* C24: in find-many mode without sort the result has as many entries as
\* there were requested ids, and the entry of each requested id is its first
\* matching found record or, when there is none, the requested id itself.
C24_UnsortedOneEntryPerRequest ==
  (reo.called /\ reo.recursed /\ ~reo.sort) =>
    /\ Len(reo.result) = Len(reo.rawIds)
    /\ \A i \in Slots :
         ~isArray(reo.rawIds[i]) =>
           reo.result[i] = IF matches(i) = {} THEN reo.rawIds[i]
                           ELSE reo.vals[firstFound(i)]

C24_Witness ==
  /\ reo.called /\ reo.recursed /\ ~reo.sort
  /\ reo.rawIds = <<idEntry("a"), idEntry("b")>>
  /\ reo.vals = <<docEntry("b", 1)>>
  /\ reo.result = <<idEntry("a"), docEntry("b", 1)>>

\* C25: in find-many mode with a sort in effect a requested id that matches
\* no found record does not appear in the result.
C25_SortedDropsUnmatched ==
  (reo.called /\ reo.recursed /\ sortingCall) =>
    \A i \in Slots :
      (reo.rawIds[i].t = "id" /\ matches(i) = {}) =>
        \A k \in DOMAIN reo.result : reo.result[k] # reo.rawIds[i]

\* C26: a nested sequence at position i of requestedIds is reassembled in
\* find-many mode and is at position i of the result.
C26_NestedKeepsPosition ==
  reo.called =>
    \A i \in Slots :
      isArray(reo.rawIds[i]) =>
        /\ i <= Len(reo.result)
        /\ reo.result[i] =
             arrayEntry(assignRawDocsToIdStructure(reo.rawIds[i].items, reo.vals,
                                                   reo.sort, TRUE))

\* ------------------------------------------ properties: Model._getSchema
\* The schema the call was made on.
called == lookup.schema[1]

\* The lengths of the non-empty prefixes of the path that are in the path
\* table of the schema.
prefixes ==
  {p \in 1..Len(lookup.parts) :
     /\ SubSeq(lookup.parts, 1, p) \in Keys
     /\ called[SubSeq(lookup.parts, 1, p)].type # "absent"}

longestPrefix == CHOOSE p \in prefixes : \A q \in prefixes : q <= p

\* The rule bound to the longest prefix.
longestRule == called[SubSeq(lookup.parts, 1, longestPrefix)]

\* C27: when the path is in the path table of the schema, the rule bound to
\* it is returned, also when a shorter prefix is bound to an array rule.
C27_ExactPathWins ==
  (lookup.called /\ Len(lookup.parts) \in prefixes) =>
    lookup.out = ruleResult(called[lookup.parts])

C27_Witness ==
  /\ lookup.called
  /\ lookup.parts = <<"a", "b">>
  /\ called[<<"a">>].type = "docs"
  /\ called[<<"a", "b">>].type = "plain"
  /\ lookup.out = ruleResult(called[<<"a", "b">>])

\* The field a path names when it alternates fields bound to arrays of
\* embedded documents and '$', and ends in a field of the innermost
\* embedded schema: << >> when the path is not of that form.
RECURSIVE target(_, _)
target(schema, parts) ==
  IF Len(parts) = 1
    THEN IF parts \in Keys /\ schema[parts].type # "absent"
           THEN <<schema[parts]>> ELSE << >>
  ELSE IF /\ Len(parts) >= 3
          /\ parts[2] = "$"
          /\ <<parts[1]>> \in Keys
          /\ schema[<<parts[1]>>].type = "docs"
    THEN target(schema[<<parts[1]>>].schema[1], SubSeq(parts, 3, Len(parts)))
  ELSE << >>

\* The call is for a path through at least one array of embedded documents.
wildcardCall ==
  /\ lookup.called
  /\ Len(lookup.parts) >= 3
  /\ target(called, lookup.parts) # << >>

\* C28 (as stated): a path alternating array fields and '$' and ending in a
\* field resolves to the rule of that field in the innermost embedded schema.
C28_WildcardPathGivesFieldRule ==
  wildcardCall => lookup.out = ruleResult(target(called, lookup.parts)[1])

\* C28 (amended): such a path resolves to the rule of that field, or to the
\* caster of that rule when the field is an array of Mixed.
C28_WildcardPathGivesFieldRuleOrCaster ==
  wildcardCall =>
    LET r == target(called, lookup.parts)[1]
    IN lookup.out = IF r.type = "mixed" THEN casterResult(r) ELSE ruleResult(r)

C28_Witness ==
  /\ wildcardCall
  /\ lookup.parts = <<"a", "$", "a", "$", "b">>
  /\ target(called, lookup.parts)[1].depth = 2
  /\ target(called, lookup.parts)[1].type = "plain"
  /\ lookup.out = ruleResult(target(called, lookup.parts)[1])

\* The longest prefix of the path in the table is an array of Mixed.
mixedPrefix == lookup.called /\ prefixes # {} /\ longestRule.type = "mixed"

\* C29 (as stated): when a prefix of the path matches an array rule whose
\* element type is Mixed, that array rule itself is returned.
C29_MixedGivesArrayRule ==
  mixedPrefix => lookup.out = ruleResult(longestRule)

\* C29 (amended): when the matching prefix is shorter than the path, the
\* element caster of the array rule is returned, and nothing of the rest
\* of the path is looked up; the array rule itself is returned only when
\* the whole path is in the table.
C29_MixedGivesCaster ==
  mixedPrefix =>
    lookup.out = IF longestPrefix < Len(lookup.parts)
                   THEN casterResult(longestRule)
                   ELSE ruleResult(longestRule)

C29_Witness ==
  /\ mixedPrefix
  /\ lookup.parts = <<"a", "$", "b">>
  /\ lookup.out = casterResult(called[<<"a">>])

\* The longest prefix in the table is bound to a rule that is not an array.
plainPrefix == lookup.called /\ prefixes # {} /\ ~hasCaster(longestRule)

\* C30 (as stated): the longest prefix in the table is used, a non-array
\* rule bound to it is returned, and not-found is returned exactly when no
\* non-empty prefix of the path is in the table.
C30_NotFoundIffNoPrefix ==
  /\ plainPrefix => lookup.out = ruleResult(longestRule)
  /\ lookup.called => (lookup.out = undefinedResult <=> prefixes = {})

\* C30 (amended): the longest prefix in the table is used and a non-array
\* rule bound to it is returned; not-found is returned when no non-empty
\* prefix is in the table, and otherwise only when the longest prefix is an
\* array of embedded documents in whose schema the rest of the path
\* resolves to nothing.
C30_LongestPrefixNotFoundByDescent ==
  /\ plainPrefix => lookup.out = ruleResult(longestRule)
  /\ (lookup.called /\ prefixes = {}) => lookup.out = undefinedResult
  /\ (lookup.called /\ lookup.out = undefinedResult /\ prefixes # {}) =>
       /\ longestRule.type = "docs"
       /\ longestPrefix < Len(lookup.parts)

C30_Witness ==
  /\ plainPrefix
  /\ lookup.parts = <<"a", "b", "a">>
  /\ called[<<"a">>].type = "plain"
  /\ longestPrefix = 2
  /\ lookup.out = ruleResult(called[<<"a", "b">>])

\* C39: hydrate invokes the caller's callback exactly once per call,
\* whether the initializations succeed or fail, now or later.
C39_HydrateCallsBackOnce ==
  hyd.called => Len(hyd.log) = 1

\* C40: _getSchema ends with a rule or with not-found and never raises,
\* also for a positional path into an array of primitives.
C40_ResolveNeverRaises ==
  lookup.called => lookup.out.kind # "TypeError"

\* C36: at no time are two ensureIndex calls of the model outstanding, also
\* when ensureIndexes is invoked while an earlier invocation is draining.
C36_OneEnsureIndexOutstanding ==
  /\ \A r \in Runs : Cardinality(runs[r].out) <= 1
  /\ \A r \in Runs : \A q \in Runs :
       r # q => (runs[r].out = {} \/ runs[q].out = {})

\* ------------------------------------------------ properties: snapshot
\* Save call c is an insert whose write is outstanding.
insertOutstanding(c) == c \in inflight /\ saves[c].op = "insert"

\* The write of save call c is reported successful in this step.
succeedsNow(c) == c \in Calls /\ saves[c].st = "pending" /\ saves'[c].st = "ok"

\* C35: the record sent by an insert is the serialized document of the
\* moment save is called and the document is marked clean in that same
\* step; while the insert is outstanding the record sent does not change,
\* whatever is set on the document; and the success of the insert leaves
\* the document as dirty, and with the field value, it had just before.
C35_InsertSnapshotThenClean ==
  [][ /\ (saveCalled /\ isNew) =>
           /\ saves'[Len(saves')].obj = [id |-> _id, rev |-> _rev, val |-> val]
           /\ Len(saves') \in inflight'
           /\ ~dirty'
      /\ \A c \in Calls :
           insertOutstanding(c) => saves'[c].obj = saves[c].obj
      /\ \A c \in Calls :
           (succeedsNow(c) /\ saves[c].op = "insert") =>
             (dirty' = dirty /\ val' = val) ]_vars

C35_Witness ==
  \E c \in Calls :
    /\ insertOutstanding(c)
    /\ saves[c].obj.val = "v1"
    /\ val = "v2"
    /\ dirty



\* C33: a save made without a completion handler whose write fails has the
\* failure emitted as an 'error' event on the model.
C33_UnhandledFailureEmitted ==
  \A c \in Calls :
     (saves[c].st = "err" /\ ~saves[c].fn)
        => \E i \in 1..Len(saves[c].emits) : saves[c].emits[i] = "error"

\* C38: when the last two saves were outstanding together and both
\* succeeded, once nothing is outstanding the revision of the document is
\* the one returned for the later of the two.
C38_LaterSaveRevisionWins ==
  \A c \in Calls :
     (/\ c + 1 = Len(saves)
      /\ inflight = {}
      /\ saves[c].st = "ok"
      /\ saves[c + 1].st = "ok"
      /\ ~saves[c].solo)
        => _rev = saves[c + 1].res.rev

\* The model under the assumption that the backend answers every write and
\* every remove it was sent: an answer that is due is eventually delivered.
\* The calls made in the runs checked for eventual completion.
MaxLiveSaves == 2

MaxLiveRemoves == 2

NextLive ==
  \/ Len(saves) < MaxLiveSaves /\ save(TRUE)
  \/ \E c \in 1..MaxLiveSaves : handleSave(c)
  \/ Len(removes) < MaxLiveRemoves /\ remove
  \/ \E p \in 1..MaxLiveRemoves : removeCallback(p)

SpecLive ==
  /\ Init
  /\ [][NextLive]_vars
  /\ \A c \in 1..MaxLiveSaves : WF_vars(handleSave(c))
  /\ \A p \in 1..MaxLiveRemoves : WF_vars(removeCallback(p))

\* C37: every save call and every remove call, a remove attached to a
\* pending removal included, eventually has its completion handler invoked,
\* and no handler is ever invoked a second time.
C37_EveryHandlerInvokedOnce ==
  /\ [](\A c \in Calls : saves[c].cb <= 1)
  /\ [](\A c \in RmCalls : removes[c].cb <= 1)
  /\ \A c \in 1..MaxLiveSaves :
        (c \in Calls) ~> (c \in Calls /\ saves[c].cb = 1)
  /\ \A c \in 1..MaxLiveRemoves :
        (c \in RmCalls) ~> (c \in RmCalls /\ removes[c].cb = 1)

C37_Witness ==
  /\ \E c \in Calls : saves[c].cb = 1 /\ saves[c].st = "err"
  /\ \E c \in RmCalls :
        /\ ~removes[c].issued
        /\ removes[c].at = "pending"
        /\ removes[c].cb = 1
  /\ inflight = {}
  /\ rmInflight = {}

\* C34: when the backend lookup behind a find call has failed, the handler
\* has been invoked once, with that error, and no hydration was started.
C34_LookupFailureReportedOnce ==
  fnd.st = "failed" =>
    /\ fnd.log = <<[err |-> fnd.err]>>
    /\ ~hyd.called
    /\ hyd.log = << >>

\* A model() call is made in the step.
modelCalled == reg'.n = reg.n + 1

\* The registry the call of the step consults, as it was before the call.
registryOfCall ==
  IF reg'.last.fn = "Mongoose.model" THEN reg.base
                                     ELSE reg.conn[reg'.last.conn]

\* C31: a call model(name, schema) for a name the registry holds throws
\* OverwriteModelError and changes no registry when the schema is not the
\* registered one, and returns the cached model when it is.
C31_OverwriteRefused ==
  [][(/\ modelCalled
      /\ reg'.last.coll = noCollection
      /\ reg'.last.cache
      /\ reg'.last.schema # noSchema
      /\ registryOfCall[reg'.last.name].id # 0)
       => LET registered == registryOfCall[reg'.last.name]
          IN IF reg'.last.schema # registered.schema
               THEN /\ reg'.last.kind = "OverwriteModelError"
                    /\ reg'.base = reg.base
                    /\ reg'.conn = reg.conn
               ELSE /\ reg'.last.kind = "model"
                    /\ reg'.last.model = registered]_vars

C31_Witness ==
  /\ reg.last.kind = "OverwriteModelError"
  /\ reg.last.fn = "Connection.model"
  /\ reg.last.schema \in SchemaInstances
  /\ reg.conn[reg.last.conn][reg.last.name].id # 0
  /\ reg.conn[reg.last.conn][reg.last.name].schema \in SchemaInstances

\* C32: a registry entry that is set is never changed by a model() call.
C32_RegistryWriteOnce ==
  [][\A name \in Names :
       /\ reg.base[name].id # 0 => reg'.base[name] = reg.base[name]
       /\ \A c \in Conns :
            reg.conn[c][name].id # 0 => reg'.conn[c][name] = reg.conn[c][name]]_vars

C32_Witness ==
  /\ reg.last.kind = "model"
  /\ reg.last.fn = "Connection.model"
  /\ reg.conn[reg.last.conn][reg.last.name].id # 0
  /\ reg.last.model.id # reg.conn[reg.last.conn][reg.last.name].id
  /\ reg.last.model.schema # reg.conn[reg.last.conn][reg.last.name].schema

============================================================================
